---- MODULE Spec2Model ----
(***************************************************************************)
(* The record pipeline and the thread facade of net/net.go: PutRecords     *)
(* (putRecords, loadRecords), CreateRecord, CreateThread, AddThread,       *)
(* DeleteThread, createExternalLogsIfNotExist and ConnectApp, run by       *)
(* concurrent workers over one logstore, one blockstore and one bus.       *)
(*                                                                         *)
(* A CID is a natural number, Undef (cid.Undef) is 0.  Every thread has    *)
(* one external log whose author has written the chain of ChainLen         *)
(* records; those records can be fetched from the DAG service at any       *)
(* time.  Records written by CreateRecord get the next unused CID.         *)
(***************************************************************************)
EXTENDS Integers, Sequences, FiniteSets, TLC

\* ---------------------------------------------------------------- bounds
NumWorkers == 2
ChainLen == 3
MaxCreate == 2
MaxLogs == 2
MaxCalls == 5
MaxCycles == 3
NumPeers == 3

\* ------------------------------------------------------------- universes
Threads == {1, 2}
Workers == 1..NumWorkers
Peers == 1..NumPeers
Undef == 0
NoLog == 0

ExtLog(t) == t
\* The host's own peer ID, and the remote peer that writes the external logs.
Self == 1
Writer == 2
ChainCids(t) == ((t - 1) * ChainLen + 1)..(t * ChainLen)
RemoteCids == UNION {ChainCids(t) : t \in Threads}
RemoteTop == Cardinality(Threads) * ChainLen
CreatedCids == (RemoteTop + 1)..(RemoteTop + MaxCreate)
Cids == RemoteCids \cup CreatedCids
ExtLogs == {ExtLog(t) : t \in Threads}
OwnLogs == (Cardinality(Threads) + 1)..(Cardinality(Threads) + MaxLogs)
LogIds == ExtLogs \cup OwnLogs
BlockKinds == {"event", "header", "body"}

\* The inputs of PutRecords: the non-empty contiguous pieces of a chain.
\* They are what getRecords, pushRecord and AddRecord hand to putRecords.
RecInputs(t) ==
    {[i \in 1..(hi - lo + 1) |-> lo + i - 1] :
        lo \in ChainCids(t), hi \in ChainCids(t)} \ {<<>>}

VARIABLES
    threads,     \* logstore: thread -> [exists, readKey]
    logs,        \* logstore: thread -> the IDs of its logs
    heads,       \* logstore: log -> head CID
    index,       \* logstore bytes: thread -> the log indexed for the host identity
    nextLog,     \* the next log ID createLog generates
    created,     \* records written by CreateRecord: cid -> [prev, log]
    envelopes,   \* blockstore: the record envelopes
    blocks,      \* blockstore: <<cid, kind>> of event, header and body blocks
    connectors,  \* thread -> a connector is registered
    sema,        \* semaphore "tu:"+thread -> holder (0: free)
    published,   \* the records sent on the bus, in order
    everHead,    \* every <<log, cid>> SetHead has stored
    nAdv,        \* remote record -> number of SetHead calls for it
    nHandle,     \* remote record -> number of HandleNetRecord calls for it
    handled,     \* remote records HandleNetRecord has returned success for
    ncalls,      \* number of calls started
    signed,      \* the remote records whose signature verifies with the key of their log
    pushed,      \* the records handed to server.pushRecord
    call,        \* worker -> the call it runs
    closePc,     \* Close: "none", "Stop", "closers", "returned"
    closeRes,    \* Close: "none", "ok", "err"
    stopped,     \* the semaphore pool is stopped
    ctxDone,     \* the root context n.ctx is cancelled
    busOpen,     \* the bus has not been discarded
    addrs,       \* logstore: log -> the peers its addresses name
    logPushes,   \* worker -> the <<log, peer>> its AddReplicator call has pushed
    sub,         \* the subscription: its goroutine, its context and its consumer
    sched,       \* startPulling: its position, its thread list, index and interval
    exch         \* the thread packer and the loop of startExchange

vars == <<threads, logs, heads, index, nextLog, created, envelopes, blocks,
          connectors, sema, published, everHead, nAdv, nHandle, handled,
          ncalls, signed, pushed, call,
          closePc, closeRes, stopped, ctxDone, busOpen, addrs, logPushes, sub,
          sched, exch>>

store == <<threads, logs, heads, index, nextLog>>
cas == <<envelopes, blocks>>
history == <<everHead, nAdv, nHandle, handled>>
shutdown == <<closePc, closeRes, stopped, ctxDone, busOpen>>
pulling == <<sched, exch>>
background == <<shutdown, addrs, logPushes, sub, pulling>>
calls == <<ncalls, call>>
stores == <<threads, logs, heads, index, nextLog, created, envelopes, blocks,
            connectors, sema, published, everHead, nAdv, nHandle, handled,
            signed, pushed>>
network == <<threads, logs, heads, index, nextLog, created, envelopes, blocks,
             connectors, sema, published, everHead, nAdv, nHandle, handled,
             ncalls, signed, pushed, call>>

NoThread == [exists |-> FALSE, readKey |-> FALSE]

Idle == [pc |-> "idle", op |-> "none", tid |-> 0, recs |-> <<>>,
         chain |-> <<>>, head |-> Undef, appc |-> FALSE, lg |-> NoLog,
         rec |-> Undef, canRead |-> FALSE, res |-> "none",
         h0 |-> Undef, rep |-> FALSE, cont |-> FALSE,
         offset |-> Undef, limit |-> 0, reply |-> <<>>,
         owned |-> FALSE, token |-> FALSE, wrote |-> FALSE,
         peer |-> 0, snap |-> <<>>, todo |-> <<>>, peers |-> {}]

\* Fields h0 and rep of a PutRecords call are not read by the call: h0 is the
\* head of the log when the call started, rep says that the call repeats,
\* with the same records, the call its worker has just ended with success,
\* cont that it brings the records its worker's last call had left when the
\* bus timed out.  Fields owned and token of a CreateRecord or DeleteThread
\* call are not read either: owned says that the thread had a connector when
\* the call started, token that the call's token was the connector's.
\* Field wrote of an AddThread call, not read either, says that the call has
\* added the thread or a log to the logstore.  Fields peer, snap, todo and
\* peers are the new replicator, managedLogs (log -> its addresses), the
\* logs of info.Logs still to push and the peers of the updated info of an
\* AddReplicator call.

\* No subscription yet.  pc is the position of the goroutine of subscribe,
\* filter its thread filter, next the index in published of the next record
\* of its listener, cur the record it is sending on the channel, out the
\* records the consumer has received, ctx whether the context of the
\* subscription is cancelled, reading whether the consumer still receives.
NoSub == [pc |-> "none", filter |-> {}, next |-> 0, cur |-> Undef, out |-> <<>>,
          ctx |-> FALSE, reading |-> TRUE]

\* startPulling after NewNetwork has started it: it waits PullStartAfter.  pc
\* is its position ("delay", "waitEmpty", "tick", "exit"), ts the threads the
\* cycle has enumerated, idx the index of the next one, interval the interval
\* of the cycle, cycle the number of enumerations.  Not read by the code:
\* why says how it has returned ("ctx", "err"), from where it was then,
\* visited the threads the cycle has visited, added the packer.Add calls of
\* its last tick, as <<peer, thread>>.
InitSched == [pc |-> "delay", ts |-> <<>>, idx |-> 0, interval |-> "Initial",
              cycle |-> 0, why |-> "none", from |-> "none",
              visited |-> <<>>, added |-> <<>>]

\* No packer and no exchange loop yet.  pc is the position of startExchange
\* ("none", "range", "spawn", "done"), buf the threads the packer holds for
\* each peer, closed whether its output channel is closed, cur the pack the
\* loop has received, recv the packs received, tasks the exchangeEdges tasks
\* spawned.
InitExch == [pc |-> "none", buf |-> [p \in Peers |-> {}], closed |-> FALSE,
             cur |-> <<>>, recv |-> <<>>, tasks |-> <<>>]

\* The addresses a log is added with: the host's for a log createLog adds,
\* the writer's for an external log.
InitAddrs == [l \in LogIds |-> IF l \in OwnLogs THEN {Self} ELSE {Writer}]

\* The state of the background work after NewNetwork.
InitBackground ==
    /\ closePc = "none"
    /\ closeRes = "none"
    /\ stopped = FALSE
    /\ ctxDone = FALSE
    /\ busOpen = TRUE
    /\ addrs = InitAddrs
    /\ logPushes = [w \in Workers |-> {}]
    /\ sub = NoSub
    /\ sched = InitSched
    /\ exch = InitExch

\* ------------------------------------------------------------- helpers
Reverse(s) == [i \in 1..Len(s) |-> s[Len(s) + 1 - i]]

SeqRange(s) == {s[i] : i \in 1..Len(s)}

Count(s, x) == Cardinality({i \in 1..Len(s) : s[i] = x})

EventBlocks(c) == {<<c, k>> : k \in BlockKinds}

PrevID(c) ==
    IF c \in CreatedCids THEN created[c].prev
    ELSE IF (c - 1) % ChainLen = 0 THEN Undef ELSE c - 1

LogOf(c) ==
    IF c \in CreatedCids THEN created[c].log
    ELSE ((c - 1) \div ChainLen) + 1

isKnown(c) == c \in envelopes

HasLog(t, l) == threads[t].exists /\ l \in logs[t]

currentHead(l) == heads[l]

getConnector(t) == connectors[t]

\* Worker w can start a call: it runs none, or its last call has ended.
Start(w) ==
    /\ call[w].pc \in {"idle", "done"}
    /\ ncalls < MaxCalls
    /\ ncalls' = ncalls + 1

\* The call of worker w ends; its result stays readable until its next call.
\* After a putRecords that returned nil, AddRecord goes on to pushRecord.
Done(w, r) ==
    [call EXCEPT ![w] = [Idle EXCEPT !.pc = IF call[w].op = "AddRecord" /\ r = "ok"
                                            THEN "pushRecord" ELSE "done",
                                     !.op = call[w].op,
                                     !.tid = call[w].tid, !.recs = call[w].recs,
                                     !.h0 = call[w].h0, !.rep = call[w].rep,
                                     !.cont = call[w].cont,
                                     !.owned = call[w].owned, !.token = call[w].token,
                                     !.wrote = call[w].wrote,
                                     !.peer = call[w].peer, !.snap = call[w].snap,
                                     !.chain = IF r = "timeout" THEN call[w].chain
                                               ELSE <<>>,
                                     !.res = r]]

\* Variant of semaThreadUpdate: one semaphore key for all threads.
semaOneKey(t) == 1

\* The key of the semaphore that guards the updates of thread t: "tu:" and
\* the ID of the thread, one semaphore per thread.
semaThreadUpdate(t) == t

\* Variant of Acquire: a stopped pool still hands out its semaphores.
AcquireStopped(t) == sema[semaThreadUpdate(t)] = 0

\* Semaphore.Acquire succeeds: the semaphore is free and the pool has not
\* been stopped (a stopped pool refuses new acquisitions).
Acquire(t) == ~stopped /\ sema[semaThreadUpdate(t)] = 0

Release(w, t) == IF sema[semaThreadUpdate(t)] = w THEN [sema EXCEPT ![semaThreadUpdate(t)] = 0] ELSE sema

\* ------------------------------------------------------------ loadRecords
\* The backward walk over the input (newest first), up to the head.
RECURSIVE walkInputs(_, _, _)
walkInputs(recs, i, head) ==
    IF i = 0 THEN [chain |-> <<>>, complete |-> FALSE]
    ELSE IF recs[i] = Undef \/ recs[i] = head
         THEN [chain |-> <<>>, complete |-> TRUE]
         ELSE LET r == walkInputs(recs, i - 1, head)
              IN  [chain |-> <<recs[i]>> \o r.chain, complete |-> r.complete]

\* The records getRecord fetches to bridge the gap (newest first).
RECURSIVE bridge(_, _)
bridge(c, head) ==
    IF c = Undef \/ c = head THEN <<>>
    ELSE <<c>> \o bridge(PrevID(c), head)

\* The chain loadRecords accumulates, newest first.
loadChain(recs, head) ==
    LET wk == walkInputs(recs, Len(recs), head)
    IN  IF wk.complete THEN wk.chain
        ELSE wk.chain \o bridge(PrevID(wk.chain[Len(wk.chain)]), head)

\* The records getRecord has to fetch for this chain.
fetched(recs, head) ==
    LET wk == walkInputs(recs, Len(recs), head)
    IN  IF wk.complete THEN <<>>
        ELSE bridge(PrevID(wk.chain[Len(wk.chain)]), head)

\* PutRecords: the fast exit on a known last record.
putRecords(w, t, recs) ==
    /\ Start(w)
    /\ LET c == [Idle EXCEPT !.op = "putRecords", !.tid = t, !.recs = recs,
                             !.h0 = heads[ExtLog(t)],
                             !.rep = /\ call[w].pc = "done"
                                     /\ call[w].op = "putRecords"
                                     /\ call[w].res = "ok"
                                     /\ call[w].tid = t
                                     /\ call[w].recs = recs,
                             !.cont = /\ call[w].pc = "done"
                                      /\ call[w].op = "putRecords"
                                      /\ call[w].res = "timeout"
                                      /\ call[w].tid = t
                                      /\ Tail(call[w].chain) = recs]
       IN  IF isKnown(recs[Len(recs)])
           THEN call' = [call EXCEPT ![w] = [c EXCEPT !.pc = "done", !.res = "ok"]]
           ELSE call' = [call EXCEPT ![w] = [c EXCEPT !.pc = "loadHead"]]
    /\ UNCHANGED <<background, signed, pushed, store, cas, connectors, sema, published, history, created>>

\* Variant of Verify: the signature is not looked at.
VerifyNone(c) == TRUE

\* rec.Verify(logpk): the signature of the record verifies with the public
\* key the logstore holds for the log.
Verify(c) == c \in signed

\* AddRecord: store.PubKey of the log, isKnown, Verify.
AddRecord(w, t, c) ==
    /\ Start(w)
    /\ LET cl == [Idle EXCEPT !.op = "AddRecord", !.tid = t, !.recs = <<c>>,
                              !.h0 = heads[ExtLog(t)]]
       IN  IF ~HasLog(t, ExtLog(t))
           THEN call' = [call EXCEPT ![w] = [cl EXCEPT !.pc = "done", !.res = "err"]]
           ELSE IF isKnown(c)
           THEN call' = [call EXCEPT ![w] = [cl EXCEPT !.pc = "done", !.res = "ok"]]
           ELSE IF ~Verify(c)
           THEN call' = [call EXCEPT ![w] = [cl EXCEPT !.pc = "done", !.res = "err"]]
           ELSE call' = [call EXCEPT ![w] = [cl EXCEPT !.pc = "loadRecords"]]
    /\ UNCHANGED <<background, signed, pushed, store, cas, connectors, sema, published, history, created>>

\* AddRecord: putRecords, whose loadRecords exits on a known last record.
loadRecords(w) ==
    /\ call[w].pc = "loadRecords"
    /\ call' = IF isKnown(call[w].recs[Len(call[w].recs)])
               THEN Done(w, "ok")
               ELSE [call EXCEPT ![w].pc = "loadHead"]
    /\ UNCHANGED <<background, signed, pushed, store, cas, connectors, sema, published, history, created, ncalls>>

\* AddRecord: server.pushRecord of the record, and its result.
pushRecord(w) ==
    /\ call[w].pc = "pushRecord"
    /\ pushed' = pushed \cup {call[w].recs[1]}
    /\ \E pushOk \in BOOLEAN :
         call' = [call EXCEPT ![w].pc = "done", ![w].res = IF pushOk THEN "ok" ELSE "err"]
    /\ UNCHANGED <<background, signed, store, cas, connectors, sema, published, history, created, ncalls>>

\* loadRecords: the head, the backward walk and the gap-filling.
loadHead(w) ==
    /\ call[w].pc = "loadHead"
    /\ LET t == call[w].tid
           l == ExtLog(t)
           head == currentHead(l)
           chain == loadChain(call[w].recs, head)
       IN  IF ~HasLog(t, l)
           THEN call' = Done(w, "err")
           ELSE \E fetchOk \in (IF fetched(call[w].recs, head) = <<>>
                                THEN {TRUE} ELSE BOOLEAN) :
                  IF ~fetchOk THEN call' = Done(w, "err")
                  ELSE IF chain = <<>> THEN call' = Done(w, "ok")
                  ELSE call' = [call EXCEPT ![w].pc = "validate",
                                            ![w].head = head,
                                            ![w].chain = Reverse(chain)]
    /\ UNCHANGED <<background, signed, pushed, store, cas, connectors, sema, published, history, created, ncalls>>

\* The blocks in the CAS after the first k records of the chain went through
\* the validation loop.
persistBlocks(bl, chain, k) ==
    bl \cup UNION {EventBlocks(chain[i]) : i \in 1..k}

\* Variant of validateResult: the error of ValidateNetRecordBody is dropped.
validateResultNil(k, n) == "acquire"

\* What loadRecords returns when ValidateNetRecordBody accepted the first k
\* of the n records of the chain: the error of record k + 1, or the chain.
validateResult(k, n) == IF k < n THEN "err" ELSE "acquire"

\* loadRecords: ValidateNetRecordBody and AddMany for each record, oldest first.
validate(w) ==
    /\ call[w].pc = "validate"
    /\ LET t == call[w].tid
           chain == call[w].chain
           doValidate == getConnector(t) /\ threads[t].readKey
       IN  IF getConnector(t) /\ ~threads[t].exists
           THEN /\ call' = Done(w, "err")
                /\ blocks' = blocks
           ELSE \E k \in (IF doValidate THEN 0..Len(chain) ELSE {Len(chain)}) :
                  /\ blocks' = persistBlocks(blocks, chain, k)
                  /\ call' = IF validateResult(k, Len(chain)) = "err" THEN Done(w, "err")
                             ELSE [call EXCEPT ![w].pc = "acquire"]
    /\ UNCHANGED <<background, signed, pushed, store, envelopes, connectors, sema, published, history, created, ncalls>>

\* The chain left after the fast-forward to the updated head; <<>> when the
\* head is not in the chain or is its last record.
fastForward(chain, head, current) ==
    IF current = head THEN chain
    ELSE IF \E i \in 1..Len(chain) : chain[i] = current
         THEN LET i == CHOOSE j \in 1..Len(chain) :
                         chain[j] = current /\ \A k \in 1..(j - 1) : chain[k] # current
              IN  SubSeq(chain, i + 1, Len(chain))
         ELSE <<>>

\* putRecords: Acquire, the recheck of the head, getConnector.
acquire(w) ==
    /\ call[w].pc = "acquire"
    /\ LET t == call[w].tid
           l == ExtLog(t)
           chain == fastForward(call[w].chain, call[w].head, currentHead(l))
       IN  /\ Acquire(t)
           /\ IF ~HasLog(t, l)
              THEN /\ call' = Done(w, "err")
                   /\ sema' = sema
              ELSE IF chain = <<>>
              THEN /\ call' = Done(w, "ok")
                   /\ sema' = sema
              ELSE /\ call' = [call EXCEPT ![w].pc = "setHead",
                                           ![w].chain = chain,
                                           ![w].appc = getConnector(t)]
                   /\ sema' = [sema EXCEPT ![semaThreadUpdate(t)] = w]
    /\ UNCHANGED <<background, signed, pushed, store, cas, connectors, published, history, created, ncalls>>

\* putRecords: SetHead for the next record of the chain.
setHead(w) ==
    /\ call[w].pc = "setHead"
    /\ LET t == call[w].tid
           l == ExtLog(t)
           c == Head(call[w].chain)
       IN  /\ heads' = [heads EXCEPT ![l] = c]
           /\ everHead' = everHead \cup {<<l, c>>}
           /\ nAdv' = [nAdv EXCEPT ![c] = @ + 1]
    /\ call' = [call EXCEPT ![w].pc = "process"]
    /\ UNCHANGED <<background, signed, pushed, threads, logs, index, nextLog, cas, connectors, sema,
                   published, nHandle, handled, created, ncalls>>

\* The envelopes after the record went through HandleNetRecord and Add.
\* Variant of addEnvelope: the envelope is added before the handler's result
\* is looked at.
addEnvelopeFirst(env, c, appConnected, handleOk) ==
    env \cup {c}

addEnvelope(env, c, appConnected, handleOk) ==
    IF appConnected /\ ~handleOk THEN env ELSE env \cup {c}

\* Variant of processResult: the error of the handler or of the bus is
\* dropped and the call returns nil.
processResultNil(handleOk, sent, rest) ==
    IF ~handleOk \/ ~sent \/ rest = <<>> THEN "ok" ELSE "next"

\* Variant of processResult: the error of SendWithTimeout is dropped.
processResultSent(handleOk, sent, rest) ==
    IF ~handleOk THEN "err"
    ELSE IF rest = <<>> THEN "ok" ELSE "next"

\* How the loop of putRecords goes on after a record: it returns the error
\* of HandleNetRecord or of SendWithTimeout, returns nil after the last
\* record, or takes the next record.
processResult(handleOk, sent, rest) ==
    IF ~handleOk THEN "err"
    ELSE IF ~sent THEN "timeout"
    ELSE IF rest = <<>> THEN "ok" ELSE "next"

\* putRecords: HandleNetRecord, Add and SendWithTimeout for the record whose
\* head was just set; the semaphore is released on return.
process(w) ==
    /\ call[w].pc = "process"
    /\ LET t == call[w].tid
           c == Head(call[w].chain)
           rest == Tail(call[w].chain)
           appc == call[w].appc
       IN  \E handleOk \in (IF appc THEN BOOLEAN ELSE {TRUE}), sent \in BOOLEAN :
             /\ nHandle' = IF appc THEN [nHandle EXCEPT ![c] = @ + 1] ELSE nHandle
             /\ handled' = IF appc /\ handleOk THEN handled \cup {c} ELSE handled
             /\ envelopes' = addEnvelope(envelopes, c, appc, handleOk)
             /\ published' = IF handleOk /\ sent THEN Append(published, c)
                             ELSE published
             /\ LET r == processResult(handleOk, sent, rest)
                IN  IF r = "next"
                    THEN /\ call' = [call EXCEPT ![w].pc = "setHead", ![w].chain = rest]
                         /\ sema' = sema
                    ELSE /\ call' = Done(w, r)
                         /\ sema' = Release(w, t)
    /\ UNCHANGED <<background, signed, pushed, store, blocks, connectors, everHead, nAdv, created, ncalls>>

\* ------------------------------------------------------- thread facade
\* ensureUniqueLog with no log key, for the host identity: TRUE when it
\* returns nil.  (GetFirstPrivKeyLog() is nil for a thread without a managed
\* log; the call ends there without adding anything.)
ensureUniqueLog(t) ==
    IF ~threads[t].exists THEN TRUE
    ELSE IF index[t] = NoLog THEN FALSE
    ELSE index[t] \notin logs[t]

\* createLog: AddLog of a log with a fresh key, managed by this peer, and
\* PutBytes of its ID under the identity.
createLog(t) ==
    /\ logs' = [logs EXCEPT ![t] = @ \cup {nextLog}]
    /\ heads' = [heads EXCEPT ![nextLog] = Undef]
    /\ index' = [index EXCEPT ![t] = nextLog]
    /\ nextLog' = nextLog + 1

\* CreateThread: Validate and ensureUniqueLog.
CreateThread(w, t) ==
    /\ Start(w)
    /\ LET c == [Idle EXCEPT !.op = "CreateThread", !.tid = t, !.canRead = TRUE]
       IN  IF ensureUniqueLog(t)
           THEN call' = [call EXCEPT ![w] = [c EXCEPT !.pc = "storeAddThread"]]
           ELSE call' = [call EXCEPT ![w] = [c EXCEPT !.pc = "done", !.res = "err"]]
    /\ UNCHANGED <<background, signed, pushed, store, cas, connectors, sema, published, history, created>>

\* AddThread from the address of another peer: Validate and ensureUniqueLog.
AddThread(w, t, canRead) ==
    /\ Start(w)
    /\ LET c == [Idle EXCEPT !.op = "AddThread", !.tid = t, !.canRead = canRead]
       IN  IF ensureUniqueLog(t)
           THEN call' = [call EXCEPT ![w] = [c EXCEPT !.pc = "storeAddThread"]]
           ELSE call' = [call EXCEPT ![w] = [c EXCEPT !.pc = "done", !.res = "err"]]
    /\ UNCHANGED <<background, signed, pushed, store, cas, connectors, sema, published, history, created>>

\* AddThread from an address of the host itself: Validate, ensureUniqueLog
\* and GetThread, which must find the thread.
AddThreadSelf(w, t, canRead) ==
    /\ Start(w)
    /\ LET c == [Idle EXCEPT !.op = "AddThreadSelf", !.tid = t, !.canRead = canRead]
       IN  IF ensureUniqueLog(t) /\ threads[t].exists
           THEN call' = [call EXCEPT ![w] = [c EXCEPT !.pc = "storeAddThread"]]
           ELSE call' = [call EXCEPT ![w] = [c EXCEPT !.pc = "done", !.res = "err"]]
    /\ UNCHANGED <<background, signed, pushed, store, cas, connectors, sema, published, history, created>>

\* store.AddThread.  CreateThread brings a new random key, which a thread
\* that exists refuses; AddThread brings the key of the thread, which is
\* accepted "even if we already have the thread locally".  AddThread goes
\* on to createLog only with a key that can read; without it, it connects
\* to the peer and queues getLogs.
storeAddThread(w) ==
    /\ call[w].pc = "storeAddThread"
    /\ LET t == call[w].tid
       IN  IF call[w].op = "CreateThread" /\ threads[t].exists
           THEN /\ call' = Done(w, "err")
                /\ threads' = threads
           ELSE /\ threads' = [threads EXCEPT ![t] =
                        [exists |-> TRUE, readKey |-> @.readKey \/ call[w].canRead]]
                /\ \E connected \in (IF call[w].op = "AddThread" THEN BOOLEAN ELSE {TRUE}) :
                     call' = IF call[w].canRead
                             THEN [call EXCEPT ![w].pc = "createLog", ![w].wrote = TRUE]
                             ELSE [Done(w, IF connected THEN "ok" ELSE "err")
                                     EXCEPT ![w].wrote = TRUE]
    /\ UNCHANGED <<background, signed, pushed, logs, heads, index, nextLog, cas, connectors, sema, published,
                   history, created, ncalls>>

\* createLog of CreateThread and AddThread; AddThread then connects to the
\* peer and queues getLogs.
createLogStep(w) ==
    /\ call[w].pc = "createLog"
    /\ nextLog \in OwnLogs
    /\ LET t == call[w].tid
       IN  IF ~threads[t].exists
           THEN /\ call' = Done(w, "err")
                /\ UNCHANGED <<logs, heads, index, nextLog>>
           ELSE /\ createLog(t)
                /\ \E connected \in (IF call[w].op = "AddThread" THEN BOOLEAN ELSE {TRUE}) :
                     call' = [Done(w, IF connected THEN "ok" ELSE "err")
                                EXCEPT ![w].wrote = TRUE]
    /\ UNCHANGED <<background, signed, pushed, threads, cas, connectors, sema, published, history, created, ncalls>>

\* createExternalLogsIfNotExist for the external log of the thread (called
\* by updateLogsFromPeer and by the pushLog handler): Acquire.
createExternalLogsIfNotExist(w, t) ==
    /\ Start(w)
    /\ Acquire(t)
    /\ sema' = [sema EXCEPT ![semaThreadUpdate(t)] = w]
    /\ call' = [call EXCEPT ![w] =
                   [Idle EXCEPT !.op = "createExternalLogsIfNotExist", !.tid = t,
                                !.pc = "addExternalLog"]]
    /\ UNCHANGED <<background, signed, pushed, store, cas, connectors, published, history, created>>

\* createExternalLogsIfNotExist: AddLog with an undefined head when the log
\* has no head, then Release.
addExternalLog(w) ==
    /\ call[w].pc = "addExternalLog"
    /\ LET t == call[w].tid
           l == ExtLog(t)
       IN  /\ IF threads[t].exists /\ l \notin logs[t]
              THEN /\ logs' = [logs EXCEPT ![t] = @ \cup {l}]
                   /\ heads' = [heads EXCEPT ![l] = Undef]
                   /\ call' = Done(w, "ok")
              ELSE /\ UNCHANGED <<logs, heads>>
                   /\ call' = Done(w, IF threads[t].exists THEN "ok" ELSE "err")
           /\ sema' = Release(w, t)
    /\ UNCHANGED <<background, signed, pushed, threads, index, nextLog, cas, connectors, published, history,
                   created, ncalls>>

\* Variant of getConnectorProtected: the token is not compared.
getConnectorOpen(t, tokenOk) == TRUE

\* getConnectorProtected: TRUE when the thread has no connector or the
\* token is the connector's.
getConnectorProtected(t, tokenOk) == ~connectors[t] \/ tokenOk

\* ConnectApp: getThreadWithAddrs and addConnector.
ConnectApp(t) ==
    /\ threads[t].exists
    /\ ~connectors[t]
    /\ connectors' = [connectors EXCEPT ![t] = TRUE]
    /\ UNCHANGED <<background, signed, pushed, store, cas, sema, published, history, created, ncalls, call>>

\* DeleteThread: getConnectorProtected, then Acquire.
DeleteThread(w, t, tokenOk) ==
    /\ Start(w)
    /\ LET c == [Idle EXCEPT !.op = "DeleteThread", !.tid = t,
                             !.owned = connectors[t], !.token = tokenOk]
       IN  IF ~getConnectorProtected(t, tokenOk)
           THEN /\ call' = [call EXCEPT ![w] = [c EXCEPT !.pc = "done", !.res = "err"]]
                /\ sema' = sema
           ELSE /\ Acquire(t)
                /\ sema' = [sema EXCEPT ![semaThreadUpdate(t)] = w]
                /\ call' = [call EXCEPT ![w] = [c EXCEPT !.pc = "deleteThread"]]
    /\ UNCHANGED <<background, signed, pushed, store, cas, connectors, published, history, created>>

\* The records reached from c along prev.
RECURSIVE ancestors(_)
ancestors(c) == IF c = Undef THEN {} ELSE {c} \cup ancestors(PrevID(c))

\* deleteRecord from c along prev: the envelopes and blocks it removes, and
\* whether it fails.  GetRecord fails on a record whose envelope is not in
\* the CAS; EventFromRecord fails, after RemoveRecord, when the event block
\* is not there.
RECURSIVE deleteRecord(_)
deleteRecord(c) ==
    IF c = Undef THEN [env |-> {}, blk |-> {}, err |-> FALSE]
    ELSE IF ~isKnown(c) THEN [env |-> {}, blk |-> {}, err |-> TRUE]
    ELSE IF <<c, "event">> \notin blocks THEN [env |-> {c}, blk |-> {}, err |-> TRUE]
    ELSE LET older == deleteRecord(PrevID(c))
         IN  [env |-> older.env \cup {c}, blk |-> older.blk \cup EventBlocks(c),
              err |-> older.err]

\* deleteThread: deleteRecord along every log, store.DeleteThread, Release.
\* The first log whose walk fails ends the call with the error; the logs
\* walked before it have lost their records.
deleteThread(w) ==
    /\ call[w].pc = "deleteThread"
    /\ LET t == call[w].tid
           failing == {l \in logs[t] : deleteRecord(heads[l]).err}
       IN  /\ IF ~threads[t].exists
              THEN /\ call' = Done(w, "err")
                   /\ UNCHANGED <<store, cas, addrs>>
              ELSE IF failing # {}
              THEN \E l \in failing, before \in SUBSET (logs[t] \ failing) :
                     /\ envelopes' = envelopes \ UNION {deleteRecord(heads[m]).env :
                                                          m \in before \cup {l}}
                     /\ blocks' = blocks \ UNION {deleteRecord(heads[m]).blk :
                                                    m \in before \cup {l}}
                     /\ call' = Done(w, "err")
                     /\ UNCHANGED <<store, addrs>>
              ELSE /\ envelopes' = envelopes \ UNION {deleteRecord(heads[l]).env : l \in logs[t]}
                   /\ blocks' = blocks \ UNION {deleteRecord(heads[l]).blk : l \in logs[t]}
                   /\ threads' = [threads EXCEPT ![t] = NoThread]
                   /\ heads' = [l \in LogIds |-> IF l \in logs[t] THEN Undef ELSE heads[l]]
                   /\ logs' = [logs EXCEPT ![t] = {}]
                   /\ index' = [index EXCEPT ![t] = NoLog]
                   /\ addrs' = [l \in LogIds |-> IF l \in logs[t] THEN InitAddrs[l]
                                                ELSE addrs[l]]
                   /\ nextLog' = nextLog
                   /\ call' = Done(w, "ok")
           /\ sema' = Release(w, t)
    /\ UNCHANGED <<shutdown, logPushes, sub, pulling, signed, pushed, connectors, published, history, created, ncalls>>

\* ---------------------------------------------------------- CreateRecord
\* The log getOrCreateLog finds for the host identity: the indexed log, or
\* the first managed log of the thread; NoLog when one has to be created.
getOrCreateLog(t) ==
    IF index[t] # NoLog THEN index[t]
    ELSE IF logs[t] \cap OwnLogs # {}
         THEN CHOOSE l \in logs[t] \cap OwnLogs : \A m \in logs[t] \cap OwnLogs : l <= m
         ELSE NoLog

UnusedCids == {c \in CreatedCids : created[c].log = NoLog}

NewCid == CHOOSE c \in UnusedCids : \A d \in UnusedCids : c <= d

\* newRecord: CreateEvent and CreateRecord put the event, header and body
\* blocks and the envelope of a record whose prev is the head of lg.
newRecord(w, c, lg, head) ==
    /\ created' = [created EXCEPT ![NewCid] = [prev |-> head, log |-> lg]]
    /\ envelopes' = envelopes \cup {NewCid}
    /\ blocks' = blocks \cup EventBlocks(NewCid)
    /\ call' = [call EXCEPT ![w] = [c EXCEPT !.pc = "crSetHead", !.lg = lg,
                                             !.rec = NewCid, !.head = head]]

\* CreateRecord: getConnectorProtected, the connector's ValidateNetRecordBody,
\* getOrCreateLog and, when the log exists, newRecord.
CreateRecord(w, t, tokenOk) ==
    /\ Start(w)
    /\ UnusedCids # {}
    /\ LET c == [Idle EXCEPT !.op = "CreateRecord", !.tid = t,
                             !.owned = connectors[t], !.token = tokenOk]
           lg == getOrCreateLog(t)
           fail == [call EXCEPT ![w] = [c EXCEPT !.pc = "done", !.res = "err"]]
       IN  \E valid \in (IF connectors[t] /\ tokenOk THEN BOOLEAN ELSE {TRUE}) :
             IF ~getConnectorProtected(t, tokenOk) \/ ~valid \/ ~threads[t].exists
                \/ (lg # NoLog /\ (lg \notin logs[t] \/ ~threads[t].readKey))
             THEN /\ call' = fail
                  /\ UNCHANGED <<created, cas>>
             ELSE IF lg = NoLog
             THEN /\ call' = [call EXCEPT ![w] = [c EXCEPT !.pc = "crCreateLog"]]
                  /\ UNCHANGED <<created, cas>>
             ELSE newRecord(w, c, lg, heads[lg])
    /\ UNCHANGED <<background, signed, pushed, store, connectors, sema, published, history>>

\* CreateRecord: createLog of getOrCreateLog, then newRecord on the new log.
crCreateLog(w) ==
    /\ call[w].pc = "crCreateLog"
    /\ nextLog \in OwnLogs
    /\ UnusedCids # {}
    /\ LET t == call[w].tid
       IN  IF ~threads[t].exists
           THEN /\ call' = Done(w, "err")
                /\ UNCHANGED <<logs, heads, index, nextLog, created, cas>>
           ELSE /\ createLog(t)
                /\ IF threads[t].readKey
                   THEN newRecord(w, call[w], nextLog, Undef)
                   ELSE /\ call' = Done(w, "err")
                        /\ UNCHANGED <<created, cas>>
    /\ UNCHANGED <<background, signed, pushed, threads, connectors, sema, published, history, ncalls>>

\* CreateRecord: SetHead of the log to the new record.
crSetHead(w) ==
    /\ call[w].pc = "crSetHead"
    /\ LET t == call[w].tid
           l == call[w].lg
           c == call[w].rec
       IN  IF ~HasLog(t, l)
           THEN /\ call' = Done(w, "err")
                /\ UNCHANGED <<heads, everHead>>
           ELSE /\ heads' = [heads EXCEPT ![l] = c]
                /\ everHead' = everHead \cup {<<l, c>>}
                /\ call' = [call EXCEPT ![w].pc = "crSend"]
    /\ UNCHANGED <<background, signed, pushed, threads, logs, index, nextLog, cas, connectors, sema, published,
                   nAdv, nHandle, handled, created, ncalls>>

\* CreateRecord: SendWithTimeout on the bus, then pushRecord.
crSend(w) ==
    /\ call[w].pc = "crSend"
    /\ \E sent \in BOOLEAN :
         /\ published' = IF sent THEN Append(published, call[w].rec) ELSE published
         /\ pushed' = IF sent THEN pushed \cup {call[w].rec} ELSE pushed
         /\ \E pushOk \in (IF sent THEN BOOLEAN ELSE {FALSE}) :
              call' = Done(w, IF pushOk THEN "ok" ELSE "err")
    /\ UNCHANGED <<background, signed, store, cas, connectors, sema, history, created, ncalls>>

\* ------------------------------------------------------------ getRecords
\* The loop of getLocalRecords: from cursor back along prev until the limit,
\* an undefined cursor or the offset; a record that cannot be read ends it
\* with the records fetched so far and the error.
RECURSIVE collectRecords(_, _, _)
collectRecords(cursor, offset, limit) ==
    IF limit = 0 \/ cursor = Undef \/ cursor = offset
    THEN [recs |-> <<>>, err |-> FALSE]
    ELSE IF ~isKnown(cursor)
    THEN [recs |-> <<>>, err |-> TRUE]
    ELSE LET older == collectRecords(PrevID(cursor), offset, limit - 1)
         IN  [recs |-> Append(older.recs, cursor), err |-> older.err]

\* Variant of getLocalRecords: an offset that is not known is not looked at.
getLocalRecordsFromHead(t, l, offset, limit) ==
    IF ~HasLog(t, l)
    THEN [recs |-> <<>>, err |-> TRUE]
    ELSE collectRecords(heads[l], offset, limit)

\* getLocalRecords: nothing for a defined offset that is not known, else
\* GetLog and the walk from the head of the log.
getLocalRecords(t, l, offset, limit) ==
    IF offset # Undef /\ ~isKnown(offset)
    THEN [recs |-> <<>>, err |-> FALSE]
    ELSE IF ~HasLog(t, l)
    THEN [recs |-> <<>>, err |-> TRUE]
    ELSE collectRecords(heads[l], offset, limit)

\* A getRecords request for the external log of thread t, served from
\* getLocalRecords.
getRecords(w, t, offset, limit) ==
    /\ Start(w)
    /\ LET r == getLocalRecords(t, ExtLog(t), offset, limit)
       IN  call' = [call EXCEPT ![w] =
                       [Idle EXCEPT !.pc = "done", !.op = "getRecords", !.tid = t,
                                    !.offset = offset, !.limit = limit,
                                    !.reply = r.recs,
                                    !.res = IF r.err THEN "err" ELSE "ok"]]
    /\ UNCHANGED <<background, signed, pushed, store, cas, connectors, sema, published, history, created>>

\* ----------------------------------------------------------- AddReplicator
\* The logs of a set, as the list info.Logs holds them.
RECURSIVE LogList(_)
LogList(ls) ==
    IF ls = {} THEN <<>>
    ELSE LET l == CHOOSE m \in ls : \A k \in ls : m <= k
         IN  <<l>> \o LogList(ls \ {l})

\* uniquePeers: the peers the addresses name, without the host itself.
uniquePeers(as) == as \ {Self}

\* Variant of SetAddrs: the addresses are added to those of the log.
SetAddrsMerge(a, l, as) == [a EXCEPT ![l] = @ \cup as]

\* store.SetAddrs: the addresses of the log become the given ones.
SetAddrs(a, l, as) == [a EXCEPT ![l] = as]

\* AddReplicator: Validate, GetThread and GetManagedLogs, whose result keeps
\* the addresses of the managed logs as they are before the call.
AddReplicator(w, t, pid) ==
    /\ Start(w)
    /\ LET c == [Idle EXCEPT !.op = "AddReplicator", !.tid = t, !.peer = pid]
           managedLogs == logs[t] \cap OwnLogs
       IN  IF ~threads[t].exists
           THEN call' = [call EXCEPT ![w] = [c EXCEPT !.pc = "done", !.res = "err"]]
           ELSE call' = [call EXCEPT ![w] =
                           [c EXCEPT !.pc = "AddAddr",
                                     !.snap = [l \in managedLogs |-> addrs[l]]]]
    /\ logPushes' = [logPushes EXCEPT ![w] = {}]
    /\ UNCHANGED <<shutdown, sub, pulling, addrs, stores>>

\* AddReplicator: AddAddr of the peer's address to every managed log, and
\* GetThread for the updated info.
arAddAddr(w) ==
    /\ call[w].pc = "AddAddr"
    /\ LET t == call[w].tid
           managedLogs == DOMAIN call[w].snap
           added == [l \in LogIds |-> IF l \in managedLogs
                                      THEN addrs[l] \cup {call[w].peer} ELSE addrs[l]]
       IN  IF ~threads[t].exists \/ ~(managedLogs \subseteq logs[t])
           THEN /\ call' = Done(w, "err")
                /\ addrs' = addrs
           ELSE /\ addrs' = added
                /\ call' = [call EXCEPT ![w].pc = IF call[w].peer # Self THEN "pushLog"
                                                  ELSE "pushPeers",
                                        ![w].todo = LogList(logs[t]),
                                        ![w].peers = uniquePeers(UNION {added[l] : l \in logs[t]})]
    /\ UNCHANGED <<shutdown, sub, pulling, logPushes, stores, ncalls>>

\* AddReplicator: pushLog of the next log of info.Logs to the new
\* replicator; when it fails, SetAddrs of the log to the addresses
\* managedLogs holds for it (none for a log that is not managed), and return.
arPushLog(w) ==
    /\ call[w].pc = "pushLog"
    /\ LET l == Head(call[w].todo)
           rest == Tail(call[w].todo)
       IN  IF call[w].todo = <<>>
           THEN /\ call' = [call EXCEPT ![w].pc = "pushPeers"]
                /\ UNCHANGED <<addrs, logPushes>>
           ELSE \E pushOk \in BOOLEAN :
                  IF pushOk
                  THEN /\ logPushes' = [logPushes EXCEPT ![w] = @ \cup {<<l, call[w].peer>>}]
                       /\ call' = [call EXCEPT ![w].todo = rest]
                       /\ addrs' = addrs
                  ELSE /\ addrs' = IF l \in DOMAIN call[w].snap
                                   THEN SetAddrs(addrs, l, call[w].snap[l])
                                   ELSE addrs
                       /\ logPushes' = logPushes
                       /\ call' = [Done(w, "err") EXCEPT ![w].todo = call[w].todo]
    /\ UNCHANGED <<shutdown, sub, pulling, stores, ncalls>>

\* AddReplicator: pushLog of every managed log to every peer of the updated
\* info (errors are logged), and return.
arPushPeers(w) ==
    /\ call[w].pc = "pushPeers"
    /\ logPushes' = [logPushes EXCEPT ![w] =
                        @ \cup ((DOMAIN call[w].snap) \X call[w].peers)]
    /\ call' = Done(w, "ok")
    /\ UNCHANGED <<shutdown, sub, pulling, addrs, stores, ncalls>>

\* -------------------------------------------------------------- Subscribe
\* The thread of a record of an external log.
ThreadOf(c) == CHOOSE t \in Threads : c \in ChainCids(t)

\* Subscribe: the channel is made and the goroutine started.
Subscribe(filter) ==
    /\ sub.pc = "none"
    /\ sub' = [sub EXCEPT !.pc = "listen", !.filter = filter]
    /\ UNCHANGED <<network, shutdown, addrs, logPushes, pulling>>

\* subscribe: n.bus.Listen(); the listener gets the records sent from now on.
subListen ==
    /\ sub.pc = "listen"
    /\ sub' = [sub EXCEPT !.pc = "select", !.next = Len(published) + 1]
    /\ UNCHANGED <<network, shutdown, addrs, logPushes, pulling>>

\* subscribe: the select takes ctx.Done() and returns, closing the channel.
subDone ==
    /\ sub.pc = "select"
    /\ sub.ctx
    /\ sub' = [sub EXCEPT !.pc = "closed"]
    /\ UNCHANGED <<network, shutdown, addrs, logPushes, pulling>>

\* subscribe: the select takes the next record of the listener; a record
\* the filter lets through goes to the send on the channel.
subReceive ==
    /\ sub.pc = "select"
    /\ sub.next <= Len(published)
    /\ LET rec == published[sub.next]
       IN  sub' = IF sub.filter = {} \/ ThreadOf(rec) \in sub.filter
                  THEN [sub EXCEPT !.pc = "send", !.cur = rec, !.next = @ + 1]
                  ELSE [sub EXCEPT !.next = @ + 1]
    /\ UNCHANGED <<network, shutdown, addrs, logPushes, pulling>>

\* subscribe: the send on the unbuffered channel completes when the consumer
\* receives.
subSend ==
    /\ sub.pc = "send"
    /\ sub.reading
    /\ sub' = [sub EXCEPT !.pc = "select", !.cur = Undef, !.out = Append(@, sub.cur)]
    /\ UNCHANGED <<network, shutdown, addrs, logPushes, pulling>>

\* The context of the subscription is cancelled.
subCancel ==
    /\ sub.pc # "none"
    /\ ~sub.ctx
    /\ sub' = [sub EXCEPT !.ctx = TRUE]
    /\ UNCHANGED <<network, shutdown, addrs, logPushes, pulling>>

\* The consumer stops receiving from the channel.
consumerStop ==
    /\ sub.pc # "none"
    /\ sub.reading
    /\ sub' = [sub EXCEPT !.reading = FALSE]
    /\ UNCHANGED <<network, shutdown, addrs, logPushes, pulling>>

\* ------------------------------------------------------------------ Close
Closers == {"DAGService", "host", "threadstore"}

\* Close: semaphores.Stop is called; from here the pool refuses new
\* acquisitions.
Close ==
    /\ closePc = "none"
    /\ closePc' = "Stop"
    /\ stopped' = TRUE
    /\ UNCHANGED <<network, addrs, logPushes, sub, pulling, closeRes, ctxDone, busOpen>>

\* Close: semaphores.Stop returns when no semaphore is held any more; the
\* connections are closed and the server is stopped (their errors are logged).
closeStopped ==
    /\ closePc = "Stop"
    /\ \A t \in Threads : sema[semaThreadUpdate(t)] = 0
    /\ closePc' = "closers"
    /\ UNCHANGED <<network, addrs, logPushes, sub, pulling, closeRes, stopped, ctxDone, busOpen>>

\* Close after weakClose of the DAG service, the host and the logstore:
\* with errors it returns them; without, it discards the bus, cancels the
\* root context and returns nil.
closeResult(errs) ==
    IF errs # {} THEN [res |-> "err", cancel |-> FALSE]
    ELSE [res |-> "ok", cancel |-> TRUE]

closeClosers ==
    /\ closePc = "closers"
    /\ \E errs \in SUBSET Closers :
         /\ closeRes' = closeResult(errs).res
         /\ ctxDone' = (ctxDone \/ closeResult(errs).cancel)
         /\ busOpen' = (busOpen /\ ~closeResult(errs).cancel)
    /\ closePc' = "returned"
    /\ UNCHANGED <<network, addrs, logPushes, sub, pulling, stopped>>

\* ------------------------------------------- startPulling, startExchange
\* n.store.Threads: the threads of the logstore.
storeThreads == LogList({t \in Threads : threads[t].exists})

\* threadOffsets, its peers: GetThread fails for a thread the logstore does
\* not have, and so may isKnown; the peers are uniquePeers of the addresses
\* of all logs of the thread.
threadOffsets(t, fail) ==
    IF ~threads[t].exists \/ fail
    THEN [err |-> TRUE, peers |-> <<>>]
    ELSE [err |-> FALSE,
          peers |-> LogList(uniquePeers(UNION {addrs[l] : l \in logs[t]}))]

\* The head of the loop PullCycle with the given interval: startPulling
\* returns when n.store.Threads fails, waits when there is no thread, and
\* starts the ticker otherwise.
PullCycle(s, interval, err) ==
    IF err
    THEN [s EXCEPT !.pc = "exit", !.why = "err", !.from = s.pc]
    ELSE [s EXCEPT !.pc = IF storeThreads = <<>> THEN "waitEmpty" ELSE "tick",
                   !.ts = storeThreads, !.idx = 0, !.interval = interval,
                   !.cycle = @ + 1, !.visited = <<>>]

\* The positions where startPulling selects on n.ctx.Done.
selectsDoneNoTick == {"delay", "waitEmpty"}

selectsDone == {"delay", "waitEmpty", "tick"}

\* compressor.Add for each peer of the list: the packer holds the thread for
\* the peer, unless it is closed.
packerAdd(e, ps, t) ==
    IF e.closed THEN e
    ELSE [e EXCEPT !.buf = [p \in Peers |->
                              IF p \in SeqRange(ps) THEN @[p] \cup {t} ELSE @[p]]]

\* startPulling after PullStartAfter: the packer is created, startExchange
\* is started and the first cycle begins with InitialPullInterval.
schedStart ==
    /\ sched.pc = "delay"
    /\ \E err \in BOOLEAN : sched' = PullCycle(sched, "Initial", err)
    /\ exch' = [exch EXCEPT !.pc = "range"]
    /\ UNCHANGED <<network, shutdown, addrs, logPushes, sub>>

\* startPulling when the wait on an empty list ends: the interval becomes
\* PullInterval and the next cycle begins.
schedRetry ==
    /\ sched.pc = "waitEmpty"
    /\ sched.cycle < MaxCycles
    /\ \E err \in BOOLEAN : sched' = PullCycle(sched, "Pull", err)
    /\ UNCHANGED <<network, shutdown, addrs, logPushes, sub, exch>>

\* startPulling at a tick: threadOffsets of ts[idx], compressor.Add for each
\* peer, idx++; after the last thread the interval becomes PullInterval and
\* the next cycle begins.  An error of threadOffsets makes it return.
schedTick ==
    /\ sched.pc = "tick"
    /\ sched.idx + 1 < Len(sched.ts) \/ sched.cycle < MaxCycles
    /\ \E fail \in BOOLEAN, err \in BOOLEAN :
         LET tid == sched.ts[sched.idx + 1]
             off == threadOffsets(tid, fail)
             s   == [sched EXCEPT !.idx = @ + 1,
                                  !.visited = Append(@, tid),
                                  !.added = [i \in 1..Len(off.peers) |->
                                               <<off.peers[i], tid>>]]
         IN  IF off.err
             THEN /\ sched' = [sched EXCEPT !.pc = "exit", !.why = "err",
                                            !.from = "tick"]
                  /\ UNCHANGED exch
             ELSE /\ exch' = packerAdd(exch, off.peers, tid)
                  /\ sched' = IF s.idx >= Len(s.ts)
                              THEN PullCycle(s, "Pull", err)
                              ELSE s
    /\ UNCHANGED <<network, shutdown, addrs, logPushes, sub>>

\* startPulling when a select takes n.ctx.Done: it returns.
schedDone ==
    /\ sched.pc \in selectsDone
    /\ ctxDone
    /\ sched' = [sched EXCEPT !.pc = "exit", !.why = "ctx", !.from = sched.pc]
    /\ UNCHANGED <<network, shutdown, addrs, logPushes, sub, exch>>

\* The owner of the context given to NewNetwork cancels it.
ctxCancel ==
    /\ ~ctxDone
    /\ ctxDone' = TRUE
    /\ UNCHANGED <<network, addrs, logPushes, sub, pulling, closePc, closeRes,
                   stopped, busOpen>>

\* The packer emits the pack of a peer (after ExchangeCompressionTimeout, or
\* when it holds MaxThreadsExchanged threads) and startExchange receives it.
packerRun(p) ==
    /\ exch.pc = "range"
    /\ ~exch.closed
    /\ exch.buf[p] # {}
    /\ exch' = [exch EXCEPT !.pc = "spawn", !.buf[p] = {},
                            !.cur = <<[Peer |-> p, Threads |-> exch.buf[p]]>>,
                            !.recv = Append(@, [Peer |-> p, Threads |-> exch.buf[p]])]
    /\ UNCHANGED <<network, shutdown, addrs, logPushes, sub, sched>>

\* The packer when the context has ended: it closes its output channel.
packerClose ==
    /\ exch.pc # "none"
    /\ ctxDone
    /\ ~exch.closed
    /\ exch' = [exch EXCEPT !.closed = TRUE, !.buf = [p \in Peers |-> {}]]
    /\ UNCHANGED <<network, shutdown, addrs, logPushes, sub, sched>>

\* startExchange with a pack: it starts the task that calls exchangeEdges
\* with the peer and the threads of the pack.
exchSpawn ==
    /\ exch.pc = "spawn"
    /\ exch' = [exch EXCEPT !.pc = "range", !.cur = <<>>,
                            !.tasks = Append(@, exch.cur[1])]
    /\ UNCHANGED <<network, shutdown, addrs, logPushes, sub, sched>>

\* startExchange when the channel of the packer is closed: the range ends.
exchEnd ==
    /\ exch.pc = "range"
    /\ exch.closed
    /\ exch' = [exch EXCEPT !.pc = "done"]
    /\ UNCHANGED <<network, shutdown, addrs, logPushes, sub, sched>>

\* ------------------------------------------------------- specifications
Init ==
    /\ threads = [t \in Threads |-> NoThread]
    /\ logs = [t \in Threads |-> {}]
    /\ heads = [l \in LogIds |-> Undef]
    /\ index = [t \in Threads |-> NoLog]
    /\ nextLog = Cardinality(Threads) + 1
    /\ created = [c \in CreatedCids |-> [prev |-> Undef, log |-> NoLog]]
    /\ envelopes = {}
    /\ blocks = {}
    /\ connectors = [t \in Threads |-> FALSE]
    /\ sema = [t \in Threads |-> 0]
    /\ published = <<>>
    /\ everHead = {}
    /\ nAdv = [c \in RemoteCids |-> 0]
    /\ nHandle = [c \in RemoteCids |-> 0]
    /\ handled = {}
    /\ ncalls = 0
    /\ InitBackground
    /\ signed = RemoteCids
    /\ pushed = {}
    /\ call = [w \in Workers |-> Idle]

Next ==
    \/ \E w \in Workers, recs \in RecInputs(1) : putRecords(w, 1, recs)
    \/ \E w \in Workers : loadHead(w)
    \/ \E w \in Workers : validate(w)
    \/ \E w \in Workers : acquire(w)
    \/ \E w \in Workers : setHead(w)
    \/ \E w \in Workers : process(w)
    \/ \E w \in Workers : CreateThread(w, 1)
    \/ \E w \in Workers, canRead \in BOOLEAN : AddThread(w, 1, canRead)
    \/ \E w \in Workers : storeAddThread(w)
    \/ \E w \in Workers : createLogStep(w)
    \/ \E w \in Workers : createExternalLogsIfNotExist(w, 1)
    \/ \E w \in Workers : addExternalLog(w)
    \/ ConnectApp(1)
    \/ \E w \in Workers, tokenOk \in BOOLEAN : DeleteThread(w, 1, tokenOk)
    \/ \E w \in Workers : deleteThread(w)
    \/ \E w \in Workers, tokenOk \in BOOLEAN : CreateRecord(w, 1, tokenOk)
    \/ \E w \in Workers : crCreateLog(w)
    \/ \E w \in Workers : crSetHead(w)
    \/ \E w \in Workers : crSend(w)

Spec == Init /\ [][Next]_vars

\* The state after AddThread with a full key and the getLogs callback:
\* thread 1 with its managed log and the external log, no record yet.
InitThread ==
    /\ threads = [t \in Threads |-> IF t = 1 THEN [exists |-> TRUE, readKey |-> TRUE]
                                     ELSE NoThread]
    /\ logs = [t \in Threads |-> IF t = 1 THEN {ExtLog(1), Cardinality(Threads) + 1} ELSE {}]
    /\ heads = [l \in LogIds |-> Undef]
    /\ index = [t \in Threads |-> IF t = 1 THEN Cardinality(Threads) + 1 ELSE NoLog]
    /\ nextLog = Cardinality(Threads) + 2
    /\ created = [c \in CreatedCids |-> [prev |-> Undef, log |-> NoLog]]
    /\ envelopes = {}
    /\ blocks = {}
    /\ connectors = [t \in Threads |-> FALSE]
    /\ sema = [t \in Threads |-> 0]
    /\ published = <<>>
    /\ everHead = {}
    /\ nAdv = [c \in RemoteCids |-> 0]
    /\ nHandle = [c \in RemoteCids |-> 0]
    /\ handled = {}
    /\ ncalls = 0
    /\ InitBackground
    /\ signed = RemoteCids
    /\ pushed = {}
    /\ call = [w \in Workers |-> Idle]

\* Concurrent PutRecords calls on the external log of thread 1.
NextPut ==
    \/ \E w \in Workers, recs \in RecInputs(1) : putRecords(w, 1, recs)
    \/ \E w \in Workers : loadHead(w)
    \/ \E w \in Workers : validate(w)
    \/ \E w \in Workers : acquire(w)
    \/ \E w \in Workers : setHead(w)
    \/ \E w \in Workers : process(w)
    \/ ConnectApp(1)

SpecPut == InitThread /\ [][NextPut]_vars

\* PutRecords calls on the external log of thread 1, one after the other.
NextSeq ==
    \/ \E recs \in RecInputs(1) : putRecords(1, 1, recs)
    \/ loadHead(1)
    \/ validate(1)
    \/ acquire(1)
    \/ setHead(1)
    \/ process(1)
    \/ ConnectApp(1)

SpecSeq == InitThread /\ [][NextSeq]_vars

\* PutRecord calls (one record each) while the thread is deleted and added
\* again.
NextDelete ==
    \/ \E w \in Workers, c \in ChainCids(1) : putRecords(w, 1, <<c>>)
    \/ \E w \in Workers : loadHead(w)
    \/ \E w \in Workers : validate(w)
    \/ \E w \in Workers : acquire(w)
    \/ \E w \in Workers : setHead(w)
    \/ \E w \in Workers : process(w)
    \/ \E w \in Workers, tokenOk \in BOOLEAN : DeleteThread(w, 1, tokenOk)
    \/ \E w \in Workers : deleteThread(w)
    \/ \E w \in Workers, canRead \in BOOLEAN : AddThread(w, 1, canRead)
    \/ \E w \in Workers : storeAddThread(w)
    \/ \E w \in Workers : createLogStep(w)
    \/ \E w \in Workers : createExternalLogsIfNotExist(w, 1)
    \/ \E w \in Workers : addExternalLog(w)

SpecDelete == InitThread /\ [][NextDelete]_vars

\* Thread 1 as in InitThread; any of the records of its external log may
\* carry a signature that does not verify.
InitAdd ==
    /\ threads = [t \in Threads |-> IF t = 1 THEN [exists |-> TRUE, readKey |-> TRUE]
                                     ELSE NoThread]
    /\ logs = [t \in Threads |-> IF t = 1 THEN {ExtLog(1), Cardinality(Threads) + 1} ELSE {}]
    /\ heads = [l \in LogIds |-> Undef]
    /\ index = [t \in Threads |-> IF t = 1 THEN Cardinality(Threads) + 1 ELSE NoLog]
    /\ nextLog = Cardinality(Threads) + 2
    /\ created = [c \in CreatedCids |-> [prev |-> Undef, log |-> NoLog]]
    /\ envelopes = {}
    /\ blocks = {}
    /\ connectors = [t \in Threads |-> FALSE]
    /\ sema = [t \in Threads |-> 0]
    /\ published = <<>>
    /\ everHead = {}
    /\ nAdv = [c \in RemoteCids |-> 0]
    /\ nHandle = [c \in RemoteCids |-> 0]
    /\ handled = {}
    /\ ncalls = 0
    /\ InitBackground
    /\ signed \in {RemoteCids \ bad : bad \in SUBSET ChainCids(1)}
    /\ pushed = {}
    /\ call = [w \in Workers |-> Idle]

\* Concurrent AddRecord calls on the external log of thread 1.
NextAdd ==
    \/ \E w \in Workers, c \in ChainCids(1) : AddRecord(w, 1, c)
    \/ \E w \in Workers : loadRecords(w)
    \/ \E w \in Workers : loadHead(w)
    \/ \E w \in Workers : validate(w)
    \/ \E w \in Workers : acquire(w)
    \/ \E w \in Workers : setHead(w)
    \/ \E w \in Workers : process(w)
    \/ \E w \in Workers : pushRecord(w)

SpecAdd == InitAdd /\ [][NextAdd]_vars

\* Both threads after AddThread with a full key and the getLogs callback.
InitTwo ==
    /\ threads = [t \in Threads |-> [exists |-> TRUE, readKey |-> TRUE]]
    /\ logs = [t \in Threads |-> {ExtLog(t), Cardinality(Threads) + t}]
    /\ heads = [l \in LogIds |-> Undef]
    /\ index = [t \in Threads |-> Cardinality(Threads) + t]
    /\ nextLog = 2 * Cardinality(Threads) + 1
    /\ created = [c \in CreatedCids |-> [prev |-> Undef, log |-> NoLog]]
    /\ envelopes = {}
    /\ blocks = {}
    /\ connectors = [t \in Threads |-> FALSE]
    /\ sema = [t \in Threads |-> 0]
    /\ published = <<>>
    /\ everHead = {}
    /\ nAdv = [c \in RemoteCids |-> 0]
    /\ nHandle = [c \in RemoteCids |-> 0]
    /\ handled = {}
    /\ ncalls = 0
    /\ InitBackground
    /\ signed = RemoteCids
    /\ pushed = {}
    /\ call = [w \in Workers |-> Idle]

\* Concurrent PutRecord calls (one record each, MaxCalls - 1 calls at most)
\* on the external logs of both threads.
NextTwo ==
    \/ /\ ncalls < MaxCalls - 1
       /\ \E w \in Workers, t \in Threads : \E c \in ChainCids(t) : putRecords(w, t, <<c>>)
    \/ \E w \in Workers : loadHead(w)
    \/ \E w \in Workers : validate(w)
    \/ \E w \in Workers : acquire(w)
    \/ \E w \in Workers : setHead(w)
    \/ \E w \in Workers : process(w)

SpecTwo == InitTwo /\ [][NextTwo]_vars

\* getRecords requests served while PutRecords calls run on the external log
\* of thread 1.
NextGet ==
    \/ \E recs \in RecInputs(1) : putRecords(1, 1, recs)
    \/ loadHead(1)
    \/ validate(1)
    \/ acquire(1)
    \/ setHead(1)
    \/ process(1)
    \/ ConnectApp(1)
    \/ \E offset \in ChainCids(1) \cup {Undef}, limit \in 1..ChainLen :
         getRecords(2, 1, offset, limit)

SpecGet == InitThread /\ [][NextGet]_vars

\* Close while PutRecord calls (one record each), DeleteThread and
\* createExternalLogsIfNotExist run on thread 1.
NextClose ==
    \/ /\ ncalls < MaxCalls - 1
       /\ \E w \in Workers, c \in ChainCids(1) : putRecords(w, 1, <<c>>)
    \/ \E w \in Workers : loadHead(w)
    \/ \E w \in Workers : validate(w)
    \/ \E w \in Workers : acquire(w)
    \/ \E w \in Workers : setHead(w)
    \/ \E w \in Workers : process(w)
    \/ /\ ncalls < MaxCalls - 1
       /\ \E w \in Workers, tokenOk \in BOOLEAN : DeleteThread(w, 1, tokenOk)
    \/ \E w \in Workers : deleteThread(w)
    \/ /\ ncalls < MaxCalls - 1
       /\ \E w \in Workers : createExternalLogsIfNotExist(w, 1)
    \/ \E w \in Workers : addExternalLog(w)
    \/ Close
    \/ closeStopped
    \/ closeClosers

SpecClose == InitThread /\ [][NextClose]_vars

\* AddThread calls, from a peer and from the host itself, CreateThread and
\* DeleteThread on thread 1.
NextAddThread ==
    \/ \E w \in Workers, canRead \in BOOLEAN : AddThread(w, 1, canRead)
    \/ \E w \in Workers, canRead \in BOOLEAN : AddThreadSelf(w, 1, canRead)
    \/ \E w \in Workers : CreateThread(w, 1)
    \/ \E w \in Workers : storeAddThread(w)
    \/ \E w \in Workers : createLogStep(w)
    \/ \E w \in Workers, tokenOk \in BOOLEAN : DeleteThread(w, 1, tokenOk)
    \/ \E w \in Workers : deleteThread(w)

SpecAddThread == Init /\ [][NextAddThread]_vars

\* Concurrent AddReplicator calls on thread 1.
NextReplicator ==
    \/ \E w \in Workers, pid \in Peers : AddReplicator(w, 1, pid)
    \/ \E w \in Workers : arAddAddr(w)
    \/ \E w \in Workers : arPushLog(w)
    \/ \E w \in Workers : arPushPeers(w)

SpecReplicator == InitThread /\ [][NextReplicator]_vars

\* A subscription while PutRecord calls (one record each, one after the
\* other, MaxCalls - 2 calls at most) publish records of both threads.
NextSubscribe ==
    \/ /\ ncalls < MaxCalls - 2
       /\ \E t \in Threads : \E c \in ChainCids(t) : putRecords(1, t, <<c>>)
    \/ loadHead(1)
    \/ validate(1)
    \/ acquire(1)
    \/ setHead(1)
    \/ process(1)
    \/ \E filter \in {{}, {1}} : Subscribe(filter)
    \/ subListen
    \/ subDone
    \/ subReceive
    \/ subSend
    \/ subCancel
    \/ consumerStop

\* The goroutine of subscribe runs whenever it can.
SpecSubscribe ==
    /\ InitTwo
    /\ [][NextSubscribe]_vars
    /\ WF_vars(subListen)
    /\ WF_vars(subDone)
    /\ WF_vars(subReceive)
    /\ WF_vars(subSend)

\* The scheduler, the packer and the exchange loop over both threads, while
\* threads are deleted, a replicator is added to thread 2 and the owner of
\* the root context cancels it.
NextPull ==
    \/ schedStart
    \/ schedRetry
    \/ schedTick
    \/ schedDone
    \/ ctxCancel
    \/ \E p \in Peers : packerRun(p)
    \/ packerClose
    \/ exchSpawn
    \/ exchEnd
    \/ /\ ncalls < MaxCalls - 3
       /\ \E t \in Threads, tokenOk \in BOOLEAN : DeleteThread(1, t, tokenOk)
    \/ deleteThread(1)
    \/ /\ ncalls < MaxCalls - 3
       /\ AddReplicator(2, 2, NumPeers)
    \/ arAddAddr(2)
    \/ arPushLog(2)
    \/ arPushPeers(2)

SpecPull ==
    /\ InitTwo
    /\ [][NextPull]_vars
    /\ WF_vars(schedDone)
    /\ WF_vars(packerClose)
    /\ WF_vars(exchSpawn)
    /\ WF_vars(exchEnd)

\* ================================================================ claims
\* The position of a record in its chain (0 for Undef).
ChainIndex(c) == IF c = Undef THEN 0 ELSE ((c - 1) % ChainLen) + 1

\* The walk along prev from c visits no CID of seen and ends at Undef.
RECURSIVE walkDistinct(_, _)
walkDistinct(c, seen) ==
    IF c = Undef THEN TRUE
    ELSE c \notin seen /\ walkDistinct(PrevID(c), seen \cup {c})

\* C1: for every log the walk along prev from its head visits pairwise
\* distinct CIDs and ends at Undef, and no two records that were ever head
\* of the same log have the same prev (no fork).
C1_ChainLinear ==
    /\ \A l \in LogIds : walkDistinct(heads[l], {})
    /\ \A x \in everHead, y \in everHead :
         (x[1] = y[1] /\ x[2] # y[2]) => PrevID(x[2]) # PrevID(y[2])

\* C2: the index of the head of a log in its authored chain never
\* decreases in a step of PutRecords; it goes back only when the thread is
\* deleted.
C2_HeadMonotone ==
    [][\A t \in Threads :
          \/ ChainIndex(heads'[ExtLog(t)]) >= ChainIndex(heads[ExtLog(t)])
          \/ (threads[t].exists /\ ~threads'[t].exists)]_vars

\* C3: every SetHead of PutRecords and of CreateRecord, every deleteThread
\* and every log added by createExternalLogsIfNotExist is done by a worker
\* that holds the semaphore of the thread.
C3_MutationsHoldSemaphore ==
    [][\A w \in Workers :
          (\/ setHead(w)
           \/ (crSetHead(w) /\ heads' # heads)
           \/ deleteThread(w)
           \/ addExternalLog(w)) => sema[call[w].tid] = w]_vars

\* C4: the records of one log are published on the bus in chain order: no
\* record is published after a record it precedes in the chain.
C4_PublishedInChainOrder ==
    \A i \in 1..Len(published), j \in 1..Len(published) :
        i < j => published[j] \notin ancestors(PrevID(published[i]))

\* C5: the envelope of an ingested record enters the CAS only when the
\* head of its log has been advanced to it and, if the call found a
\* connector attached to the thread, HandleNetRecord has returned success
\* for it.
C5_EnvelopeAfterHandle ==
    [][\A c \in RemoteCids :
          (c \notin envelopes /\ c \in envelopes') =>
             /\ heads[LogOf(c)] = c
             /\ <<LogOf(c), c>> \in everHead
             /\ \E w \in Workers :
                  /\ call[w].pc = "process"
                  /\ Head(call[w].chain) = c
                  /\ (call[w].appc => c \in handled')]_vars

\* An ingested record is known and was handled by the connector.
C5_Witness ==
    \E c \in RemoteCids : c \in envelopes /\ c \in handled /\ connectors[LogOf(c)]

\* C6: whenever the head of a log is a record, the event, header and body
\* blocks of that record are in the CAS.
C6_PersistBeforeHead ==
    \A l \in LogIds : heads[l] # Undef => EventBlocks(heads[l]) \subseteq blocks

\* C7: no identity owns more than one managed log of a thread (the model
\* has one identity, the host, and createLog manages every log it adds).
C7_LogUnique ==
    \A t \in Threads : Cardinality(logs[t] \cap OwnLogs) <= 1

\* The records of the chain of thread 1 after head h up to record c.
After(h, c) == {x \in ChainCids(1) : ChainIndex(h) < ChainIndex(x) /\ ChainIndex(x) <= ChainIndex(c)}

\* C8 (as stated): when PutRecords has been applied a second time after a
\* successful first application, each record of recs has been emitted on
\* the bus exactly once in total.
C8_ExactlyOnce ==
    \A w \in Workers :
        (call[w].pc = "done" /\ call[w].op = "putRecords" /\ call[w].rep /\ call[w].res = "ok")
            => \A c \in SeqRange(call[w].recs) : Count(published, c) = 1

\* C8 (amended): no step of a PutRecords call that repeats, with the same
\* records, the successful call before it changes a log head or the CAS or
\* publishes on the bus.
C8_RepeatChangesNothing ==
    [][\A w \in Workers :
          (call'[w].rep /\ call'[w] # call[w])
              => /\ heads' = heads
                 /\ envelopes' = envelopes
                 /\ blocks' = blocks
                 /\ published' = published]_vars

\* A repeated call has returned after a first application that ingested and
\* published its records.
C8_Witness ==
    \E w \in Workers :
        /\ call[w].pc = "done" /\ call[w].rep /\ call[w].res = "ok"
        /\ \A c \in SeqRange(call[w].recs) : c \in envelopes /\ Count(published, c) = 1
        /\ heads[ExtLog(call[w].tid)] = call[w].recs[Len(call[w].recs)]

\* C9: a successful PutRecords call that was given only record rn while the
\* head was undefined or an ancestor r_k of rn ends with head = rn, and the
\* bus has emitted each of r_(k+1)..rn exactly once, in chain order.
C9_GapFilled ==
    \A w \in Workers :
        (/\ call[w].pc = "done" /\ call[w].op = "putRecords" /\ call[w].res = "ok"
         /\ Len(call[w].recs) = 1
         /\ ChainIndex(call[w].h0) < ChainIndex(call[w].recs[1]))
            => /\ heads[ExtLog(call[w].tid)] = call[w].recs[1]
               /\ \A c \in After(call[w].h0, call[w].recs[1]) : Count(published, c) = 1
               /\ \A i \in 1..Len(published), j \in 1..Len(published) :
                     (i < j /\ {published[i], published[j]} \subseteq After(call[w].h0, call[w].recs[1]))
                         => published[i] < published[j]

\* C10: when two PutRecords calls on the log, and no other call, have both
\* returned with success, every record of the union of their chains has had
\* its head advance and its bus publication exactly once, and its
\* HandleNetRecord call at most once.
C10_UnionOnce ==
    \A v \in Workers, w \in Workers :
        (/\ v # w
         /\ ncalls = 2
         /\ \A x \in {v, w} : call[x].pc = "done" /\ call[x].op = "putRecords" /\ call[x].res = "ok")
            => \A x \in {v, w} : \A c \in After(Undef, call[x].recs[Len(call[x].recs)]) :
                  /\ nAdv[c] = 1
                  /\ Count(published, c) = 1
                  /\ nHandle[c] <= 1

\* The positions of a call at which it holds the semaphore of its thread.
Holding == {"setHead", "process", "deleteThread", "addExternalLog"}

\* C11: two PutRecords calls on the same thread are never both between
\* Acquire and Release, so the head updates of one are not interleaved with
\* those of the other; and a call waiting at Acquire can go on whenever no
\* other call holds the semaphore of its own thread, whatever calls on other
\* threads do.
C11_Linearized ==
    /\ \A v \in Workers, w \in Workers :
          (v # w /\ call[v].tid = call[w].tid)
              => ~(call[v].pc \in Holding /\ call[w].pc \in Holding)
    /\ \A w \in Workers :
          (/\ call[w].pc = "acquire"
           /\ \A v \in Workers \ {w} :
                 ~(call[v].tid = call[w].tid /\ call[v].pc \in Holding))
              => ENABLED acquire(w)

\* Two calls on different threads are in their head-advancing phase at the
\* same time.
C11_Witness ==
    \E v \in Workers, w \in Workers :
        /\ call[v].tid = 1 /\ call[w].tid = 2
        /\ call[v].pc \in {"setHead", "process"}
        /\ call[w].pc \in {"setHead", "process"}
        /\ Len(call[v].chain) > 1

\* C12: when a PutRecords call has returned success, every record of its
\* input on which HandleNetRecord had been invoked has been handled with
\* success (a failed handling is repeated by the call that brings the record
\* again).
C12_HandledAgain ==
    \A w \in Workers :
        (call[w].pc = "done" /\ call[w].op = "putRecords" /\ call[w].res = "ok")
            => \A c \in SeqRange(call[w].recs) : nHandle[c] > 0 => c \in handled

\* C13: every step of an AddRecord call whose record has a signature that
\* does not verify ends the call, with an error unless the record is already
\* known, and changes no head, no envelope, no block, nothing on the bus and
\* nothing pushed.
C13_BadSignatureNoChange ==
    [][\A w \in Workers :
          (/\ call'[w].op = "AddRecord"
           /\ call'[w] # call[w]
           /\ call'[w].recs[1] \notin signed)
              => /\ call'[w].pc = "done"
                 /\ call'[w].res = "err" \/ call'[w].recs[1] \in envelopes
                 /\ heads' = heads
                 /\ envelopes' = envelopes
                 /\ blocks' = blocks
                 /\ published' = published
                 /\ pushed' = pushed]_vars

\* An AddRecord call has returned the error of Verify for an unknown record
\* while another record has been ingested.
C13_Witness ==
    \E w \in Workers :
        /\ call[w].pc = "done" /\ call[w].op = "AddRecord" /\ call[w].res = "err"
        /\ call[w].recs[1] \notin signed
        /\ call[w].recs[1] \notin envelopes
        /\ envelopes # {}

\* C14: every record that was made head of a log by AddRecord has a
\* signature that verifies with the key of the log.
C14_HeadsVerified ==
    \A x \in everHead : x[2] \in RemoteCids => x[2] \in signed

\* C15: with a connector attached and a read key, a step of the validation
\* loop that stopped at a record (it did not persist the blocks of every
\* record of the chain) ends the call with an error and changes no head and
\* no envelope, calls no HandleNetRecord and publishes nothing; the head is
\* still the one the call read.
C15_ValidateAborts ==
    [][\A w \in Workers :
          (/\ call[w].pc = "validate"
           /\ call'[w] # call[w]
           /\ connectors[call[w].tid] /\ threads[call[w].tid].readKey
           /\ ~(UNION {EventBlocks(c) : c \in SeqRange(call[w].chain)} \subseteq blocks'))
              => /\ call'[w].pc = "done" /\ call'[w].res = "err"
                 /\ heads' = heads
                 /\ heads[ExtLog(call[w].tid)] = call[w].head
                 /\ envelopes' = envelopes
                 /\ nHandle' = nHandle
                 /\ published' = published]_vars

\* A batch of two records or more was aborted by the validation of a record
\* after its first: blocks are persisted, nothing else has happened.
C15_Witness ==
    \E w \in Workers :
        /\ call[w].pc = "done" /\ call[w].op = "putRecords" /\ call[w].res = "err"
        /\ Len(call[w].recs) >= 2
        /\ connectors[call[w].tid]
        /\ blocks # {}
        /\ everHead = {} /\ envelopes = {} /\ published = <<>>
        /\ \A c \in RemoteCids : nHandle[c] = 0

\* C16: a step of putRecords that stored the envelope of r_k and did not
\* publish it (the bus timed out) ends the call with the error with the head
\* at r_k; and when the next call of the worker, given the records the
\* aborted call had left after r_k, returns success, the head is the last of
\* them and each of them has been published.
C16_TimeoutThenResume ==
    [][\A w \in Workers :
          /\ (/\ call[w].pc = "process"
              /\ call'[w] # call[w]
              /\ Head(call[w].chain) \notin envelopes
              /\ Head(call[w].chain) \in envelopes'
              /\ published' = published)
                 => /\ call'[w].pc = "done" /\ call'[w].res = "timeout"
                    /\ heads'[ExtLog(call[w].tid)] = Head(call[w].chain)
                    /\ \A c \in SeqRange(Tail(call[w].chain)) : nAdv'[c] = nAdv[c]
          /\ (/\ call'[w].pc = "done" /\ call'[w].cont /\ call'[w].res = "ok"
              /\ call'[w] # call[w])
                 => /\ heads'[ExtLog(call'[w].tid)] = call'[w].recs[Len(call'[w].recs)]
                    /\ \A c \in SeqRange(call'[w].recs) : Count(published', c) >= 1]_vars

\* A call has resumed, with two records or more, a chain that a bus timeout
\* had cut, and has returned success.
C16_Witness ==
    \E w \in Workers :
        /\ call[w].pc = "done" /\ call[w].cont /\ call[w].res = "ok"
        /\ Len(call[w].recs) >= 2
        /\ heads[ExtLog(call[w].tid)] = call[w].recs[Len(call[w].recs)]

\* C17: on a thread whose key has no read key, a record that goes through
\* putRecords has its envelope stored and is the head of its log, and
\* HandleNetRecord is not called for it.
C17_ServiceOnlyNotHandled ==
    [][\A w \in Workers :
         (/\ call[w].pc = "process"
          /\ call'[w] # call[w]
          /\ threads[call[w].tid].exists
          /\ ~threads[call[w].tid].readKey)
         => /\ Head(call[w].chain) \in envelopes'
            /\ heads'[ExtLog(call[w].tid)] = Head(call[w].chain)
            /\ nHandle' = nHandle]_vars

\* C18 (as stated): a getRecords request whose offset is defined but not
\* known in the CAS is answered with the records of the log from its head,
\* up to the limit, as a request with an undefined offset is.
C18_UnknownOffsetFromHead ==
    [][\A w \in Workers :
         (/\ call'[w] # call[w]
          /\ call'[w].op = "getRecords"
          /\ call'[w].offset # Undef
          /\ ~isKnown(call'[w].offset))
         => call'[w].reply =
              getLocalRecords(call'[w].tid, ExtLog(call'[w].tid), Undef, call'[w].limit).recs]_vars

\* C18 (amended): a request whose offset is defined but not known is
\* answered with no record and no error; every other request is answered
\* with at most limit records, chained by prev in chronological order, the
\* last one the head of the log, none of them the offset.
C18_UnknownOffsetEmpty ==
    [][\A w \in Workers :
         (call'[w] # call[w] /\ call'[w].op = "getRecords")
         => LET c == call'[w]
                n == Len(c.reply)
            IN  /\ (c.offset # Undef /\ ~isKnown(c.offset))
                     => (c.reply = <<>> /\ c.res = "ok")
                /\ n <= c.limit
                /\ n > 0 => c.reply[n] = heads[ExtLog(c.tid)]
                /\ \A i \in 1..(n - 1) : PrevID(c.reply[i + 1]) = c.reply[i]
                /\ \A i \in 1..n : c.reply[i] # c.offset]_vars

\* A request with an unknown offset was answered with nothing while the log
\* had a head whose record is in the CAS.
C18_Witness ==
    \E w \in Workers :
        /\ call[w].op = "getRecords"
        /\ call[w].pc = "done"
        /\ call[w].offset # Undef
        /\ ~isKnown(call[w].offset)
        /\ heads[ExtLog(call[w].tid)] # Undef
        /\ isKnown(heads[ExtLog(call[w].tid)])
        /\ call[w].reply = <<>>
        /\ call[w].res = "ok"

\* C19: when DeleteThread of thread T returns success, no envelope and no
\* event, header or body block of a record of T's logs is in the CAS, the
\* logstore holds nothing of T, and CreateThread(T) passes ensureUniqueLog;
\* also when a PutRecords on T was in flight.
C19_DeletedThreadGone ==
    [][\A w \in Workers :
         (/\ call[w].pc = "deleteThread"
          /\ call'[w].pc = "done"
          /\ call'[w].res = "ok")
         => LET t == call[w].tid
                recs == ChainCids(t) \cup {c \in CreatedCids : created[c].log \in logs[t]}
            IN  /\ \A c \in recs : c \notin envelopes' /\ EventBlocks(c) \cap blocks' = {}
                /\ threads'[t] = NoThread
                /\ logs'[t] = {}
                /\ index'[t] = NoLog
                /\ ensureUniqueLog(t)']_vars

\* The variables C20 names: heads, logs, CAS and bus.
C20_Kept == <<threads, logs, heads, index, envelopes, blocks, created, published, pushed>>

\* C20: a CreateRecord or a DeleteThread on a thread that has a connector,
\* called with a token that is not the connector's, ends at once with the
\* error and changes neither heads, logs, CAS nor bus, and no such call
\* goes on or returns success; on a thread without a connector the call is
\* not refused for its token.
C20_TokenProtects ==
    [][\A w \in Workers :
         /\ (/\ call'[w] # call[w]
             /\ call'[w].op \in {"CreateRecord", "DeleteThread"}
             /\ call'[w].owned
             /\ ~call'[w].token)
            => /\ call[w].pc \in {"idle", "done"}
               /\ call'[w].pc = "done"
               /\ call'[w].res = "err"
               /\ C20_Kept' = C20_Kept
         /\ (/\ call[w].pc \in {"idle", "done"}
             /\ call'[w] # call[w]
             /\ call'[w].op = "DeleteThread"
             /\ ~call'[w].owned)
            => call'[w].pc = "deleteThread"
         /\ (/\ call[w].pc \in {"idle", "done"}
             /\ call'[w] # call[w]
             /\ call'[w].op = "CreateRecord"
             /\ ~call'[w].owned
             /\ threads[call'[w].tid].exists
             /\ threads[call'[w].tid].readKey
             /\ getOrCreateLog(call'[w].tid) \in logs[call'[w].tid] \cup {NoLog})
            => call'[w].pc \in {"crCreateLog", "crSetHead"}]_vars

\* Calls on a thread with a connector: one with the connector's token has
\* returned success, one with another token has been refused.
C20_Witness ==
    \E w, v \in Workers :
        /\ call[w].op \in {"CreateRecord", "DeleteThread"}
        /\ call[w].owned /\ call[w].token
        /\ call[w].pc = "done" /\ call[w].res = "ok"
        /\ call[v].op \in {"CreateRecord", "DeleteThread"}
        /\ call[v].owned /\ ~call[v].token
        /\ call[v].pc = "done" /\ call[v].res = "err"

\* C21: once Close has returned, with nil or with an error of a closer, the
\* root context is cancelled.
C21_CloseCancels ==
    closePc = "returned" => ctxDone

C23_RecordsAfterOffset ==
    [][\A w \in Workers :
         (/\ call'[w] # call[w]
          /\ call'[w].op = "getRecords"
          /\ (call'[w].offset = Undef \/ isKnown(call'[w].offset)))
         => LET c == call'[w]
                n == Len(c.reply)
                between == ancestors(heads[ExtLog(c.tid)]) \ ancestors(c.offset)
            IN  /\ n <= c.limit
                /\ n > 0 => c.reply[n] = heads[ExtLog(c.tid)]
                /\ \A i \in 1..(n - 1) : PrevID(c.reply[i + 1]) = c.reply[i]
                /\ \A i \in 1..n : c.reply[i] \notin ancestors(c.offset)
                /\ Cardinality(between) <= c.limit => SeqRange(c.reply) = between]_vars

\* C30: in every state the defined head of every log is a record whose
\* envelope is in the blockstore.
C30_HeadInBlockstore ==
    \A t \in Threads : \A l \in logs[t] : heads[l] # Undef => isKnown(heads[l])

\* C27: an AddThread call that returns an error has added neither the
\* thread nor a log to the logstore (the peer is dialled before anything is
\* added), and AddThread from an address of the host itself fails without
\* adding anything when the thread is not in the logstore.
C27_DialBeforeAdd ==
    [][\A w \in Workers :
         /\ (/\ call'[w] # call[w]
             /\ call'[w].op = "AddThread"
             /\ call'[w].pc = "done"
             /\ call'[w].res = "err")
            => ~call'[w].wrote
         /\ (/\ call'[w] # call[w]
             /\ call[w].pc \in {"idle", "done"}
             /\ call'[w].op = "AddThreadSelf"
             /\ ~threads[call'[w].tid].exists)
            => /\ call'[w].pc = "done"
               /\ call'[w].res = "err"
               /\ store' = store]_vars

C29_SubscribeClosesOnCancel ==
    /\ [](\A i \in 1..Len(sub.out) :
             /\ sub.filter = {} \/ ThreadOf(sub.out[i]) \in sub.filter
             /\ \E j \in 1..Len(published) : published[j] = sub.out[i])
    /\ (sub.ctx ~> (sub.pc = "closed"))

\* C24: a tick of a cycle, unless the root context is cancelled, visits the
\* next thread of the list the cycle has enumerated (so that the cycle
\* visits each of them once, in the order of the list, and ends after the
\* last), and calls packer.Add once for each remote peer of the addresses of
\* the logs of that thread and never for the host; the first cycle has
\* InitialPullInterval and every later one PullInterval.
C24_CycleVisitsAll ==
    [][/\ (sched.pc = "tick" /\ sched' # sched /\ sched'.why # "ctx") =>
            LET tid == sched.ts[sched.idx + 1]
            IN  /\ sched'.why = "none"
                /\ sched.visited = SubSeq(sched.ts, 1, sched.idx)
                /\ IF sched.idx + 1 = Len(sched.ts)
                   THEN sched'.cycle = sched.cycle + 1 /\ sched'.idx = 0
                   ELSE /\ sched'.cycle = sched.cycle
                        /\ sched'.ts = sched.ts
                        /\ sched'.idx = sched.idx + 1
                        /\ sched'.visited = Append(sched.visited, tid)
                /\ SeqRange(sched'.added) =
                     {<<p, tid>> : p \in (UNION {addrs[l] : l \in logs[tid]}) \ {Self}}
                /\ \A i \in 1..Len(sched'.added), j \in 1..Len(sched'.added) :
                     sched'.added[i] = sched'.added[j] => i = j
       /\ sched'.pc \in {"waitEmpty", "tick"} =>
            sched'.interval = IF sched'.cycle = 1 THEN "Initial" ELSE "Pull"
      ]_vars

\* C25: the scheduler returns only when the root context is cancelled.
C25_SchedulerNeverStops == sched.pc = "exit" => ctxDone

\* C26: once the root context is cancelled the scheduler returns, whatever
\* its position; once the output channel of the packer is closed the
\* exchange loop ends; the exchangeEdges tasks spawned are the packs
\* received, one for each, in order.
C26_CancelTerminates ==
    /\ ctxDone ~> (sched.pc = "exit")
    /\ exch.closed ~> (exch.pc = "done")
    /\ [](exch.recv = exch.tasks \o exch.cur)

\* The context was cancelled during a ticking cycle and both loops have
\* ended, after a pack was received.
C26_Witness ==
    /\ sched.pc = "exit"
    /\ sched.why = "ctx"
    /\ sched.from = "tick"
    /\ exch.pc = "done"
    /\ exch.tasks # <<>>

====
